---- MODULE Spec2Model ----
(***************************************************************************)
(* Model of the clinicaltrials_analyze_trends tool of the ClinicalTrials   *)
(* MCP server: fetchAllStudies (probe, cap check, bulk paging loop with    *)
(* throttle delay) and analyzeTrendsLogic (one tally per analysis type).   *)
(* One invocation of analyzeTrendsLogic runs against a remote study source *)
(* (ClinicalTrialsGovService.listStudies) whose answers are chosen         *)
(* nondeterministically.  Every suspension point of the async code (an     *)
(* awaited listStudies call, the awaited delay) is a value of pc, and each *)
(* action runs the code from one suspension point to the next.             *)
(* SpecLarge is a fetch of a result as large as the record cap, SpecPair   *)
(* two invocations in flight at once against one unchanging remote.        *)
(* SpecCancel adds a cancellation request to the fetch, SpecLive follows   *)
(* the fetch under weak fairness against a remote that may answer without  *)
(* end.  SpecStudy is one call of getStudyLogic (clinicaltrials_get_study) *)
(* whose fetches settle in any order, SpecServer the start-up of the       *)
(* server (initializeAndStartServer) followed by the serving of getStudy.  *)
(***************************************************************************)
EXTENDS Integers, Sequences, FiniteSets, TLC

(***************************************************************************)
(* Program constants.                                                      *)
(***************************************************************************)
MAX_STUDIES_FOR_ANALYSIS == 5000
PROBE_PAGE_SIZE == 1
BULK_PAGE_SIZE == 1000

(***************************************************************************)
(* Bounds of the model.                                                    *)
(***************************************************************************)
\* largest number of records the remote puts in one bulk page
MaxPageLen == 2
\* number of bulk requests of one fetch that are explored
MaxBulk == 3
\* number of bulk requests of a fetch of a large result that are explored
MaxBulkLarge == 6
\* largest number of NCT IDs of one getStudy call that is explored
MaxIds == 3

(***************************************************************************)
(* Optional values: an absent (undefined/null) value is the empty tuple,   *)
(* a present value v is the one-element tuple <<v>>.                       *)
(***************************************************************************)
None == <<>>
Some(v) == <<v>>

\* JavaScript's  opt ?? dflt
Coalesce(opt, dflt) == IF opt = None THEN dflt ELSE opt[1]

\* JavaScript truthiness of a string: only the empty string is falsy
Truthy(str) == str # ""

Min(a, b) == IF a <= b THEN a ELSE b

(***************************************************************************)
(* Study records.  Only the four attributes the tool reads are kept; each  *)
(* optional-chaining path of the code is one optional field.               *)
(***************************************************************************)
Study(status, locations, sponsorClass, phases) ==
    [ overallStatus |-> status,
      locations     |-> locations,
      leadSponsorClass |-> sponsorClass,
      phases        |-> phases ]

\* the three studies of the test fixture
mockStudies ==
    << Study(Some("COMPLETED"), Some(<<Some("USA")>>),
             Some("INDUSTRY"), Some(<<Some("PHASE_3")>>)),
       Study(Some("RECRUITING"), Some(<<Some("USA"), Some("Canada")>>),
             Some("INDUSTRY"), Some(<<Some("PHASE_2")>>)),
       Study(Some("COMPLETED"), Some(<<Some("Canada")>>),
             Some("NIH"), Some(<<Some("PHASE_3")>>)) >>

\* a study with no protocolSection at all
bareStudy == Study(None, None, None, None)

\* a study whose lists are present but empty and whose class strings are empty
emptyStudy == Study(Some(""), Some(<<>>), Some(""), Some(<<>>))

\* a study with repeated and missing list entries
repeatStudy ==
    Study(Some("RECRUITING"), Some(<<Some("USA"), Some("USA"), None>>),
          Some("NIH"), Some(<<Some("PHASE_2"), Some("PHASE_2"), None>>))

\* the data sets the remote source may hold
DataSets ==
    { mockStudies,
      <<bareStudy, repeatStudy, mockStudies[2]>>,
      <<mockStudies[1], emptyStudy, repeatStudy, bareStudy>> }

(***************************************************************************)
(* Inputs of the tool.                                                     *)
(***************************************************************************)
AnalysisTypes ==
    {"countByStatus", "countByCountry", "countBySponsorType", "countByPhase"}

\* analysisType is a single type or a non-empty array of types
AnalysisTypeInputs ==
    { [isArray |-> FALSE, value |-> <<"countByStatus">>],
      [isArray |-> FALSE, value |-> <<"countByPhase">>],
      [isArray |-> TRUE,  value |-> <<"countByCountry", "countBySponsorType">>],
      [isArray |-> TRUE,  value |-> <<"countByPhase", "countByStatus">>] }

\* analysisType values that are not of the input schema: an empty array, a
\* type outside the enumeration
InvalidAnalysisTypeInputs ==
    { [isArray |-> TRUE,  value |-> <<>>],
      [isArray |-> FALSE, value |-> <<"countByYear">>],
      [isArray |-> TRUE,  value |-> <<"countByStatus", "countByYear">>] }

\* mutant: the array form of the schema without .min(1)
SchemaAcceptsEmpty(input) ==
    \A i \in DOMAIN input.value : input.value[i] \in AnalysisTypes

\* AnalyzeTrendsInputSchema.analysisType:
\* z.union([AnalysisTypeSchema, z.array(AnalysisTypeSchema).min(1)])
SchemaAccepts(input) ==
    /\ Len(input.value) >= 1
    /\ \A i \in DOMAIN input.value : input.value[i] \in AnalysisTypes

\* the caller's query and filter, each optional
SearchParamsInputs ==
    { [query |-> Some("cancer"), filter |-> None],
      [query |-> None, filter |-> Some("RECRUITING")] }

\* total counts the probe may report (None: the field is missing)
ProbeTotals ==
    { None, Some(0), Some(2), Some(3),
      Some(MAX_STUDIES_FOR_ANALYSIS), Some(MAX_STUDIES_FOR_ANALYSIS + 1),
      Some(9999) }

\* errors a failing listStudies call rejects with
UpstreamErrors ==
    { [code    |-> "SERVICE_UNAVAILABLE",
       message |-> [text |-> "API request failed with status {0}", args |-> <<500>>],
       details |-> [status |-> 500]],
      [code    |-> "TIMEOUT",
       message |-> [text |-> "Request timed out", args |-> <<>>],
       details |-> [status |-> 0]] }

VARIABLES
    pc,            \* where the invocation is suspended
    dataset,       \* the records the remote source holds
    searchParams,  \* params.query and params.filter
    cancelled,     \* once the caller's cancellation signal has fired: the
                   \* number of requests and delays made until then
    keepHistory,   \* whether requests, pages and delays record the whole
                   \* invocation or only its latest call and response
    analysisType,  \* params.analysisType
    initialResponse, \* fetchAllStudies: const initialResponse, once received
    requests,      \* every listStudies call made so far, in order
    pages,         \* every bulk response received so far, in order
    failure,       \* the rejected listStudies call, if any, and its position
    delays,        \* number of throttle delays started
    totalStudies,  \* fetchAllStudies: const totalStudies
    allStudies,    \* fetchAllStudies: let allStudies
    pageToken,     \* fetchAllStudies: let pageToken
    hasMore,       \* fetchAllStudies: let hasMore
    response,      \* what the tool handler returned to the caller, if it did
    calls,         \* two concurrent invocations: per call, its position,
                   \* its params, the requests it made and its outcome
    frames,        \* two concurrent invocations: per call, the locals of its
                   \* fetchAllStudies frame
    remotePolicy,  \* two concurrent invocations: how the remote answers
    nctIds,        \* getStudy: params.nctIds
    summaryOnly,   \* getStudy: params.summaryOnly
    studyPc,       \* getStudy: where getStudyLogic is suspended
    fetches,       \* getStudy: per position in nctIds, "pending" or how
                   \* its fetchStudy call settled
    studiesOut,    \* getStudy: const studies
    errorsOut,     \* getStudy: const errors
    studyResult,   \* getStudy: what getStudyLogic resolved with, if it did
    serverPc,      \* start-up: where initializeAndStartServer is suspended
    transportType, \* start-up: config.mcpTransportType
    registered,    \* start-up: the tools registered so far, in order
    transportStarted, \* start-up: the transport whose start was called, if any
    startFailure,  \* start-up: the step of the start-up that failed, if any,
                   \* and its error
    handledErrors, \* start-up: the calls of ErrorHandler.handleError
    exitCode,      \* start-up: the code process.exit was called with, if any
    analysis,      \* the value analyzeTrendsLogic resolved with, if any
    error          \* the error analyzeTrendsLogic rejected with, if any

vars == << pc, dataset, searchParams, keepHistory, cancelled, analysisType,
           initialResponse, requests, pages, failure, delays,
           totalStudies, allStudies, pageToken, hasMore, analysis, error,
           response, calls, frames, remotePolicy,
           nctIds, summaryOnly, studyPc, fetches, studiesOut,
           errorsOut, studyResult,
           serverPc, transportType, registered, transportStarted,
           startFailure, handledErrors, exitCode >>

\* the state of getStudyLogic
studyVars ==
    << nctIds, summaryOnly, studyPc, fetches, studiesOut, errorsOut,
       studyResult >>

\* the state of the server start-up
serverVars ==
    << serverPc, transportType, registered, transportStarted, startFailure,
       handledErrors, exitCode >>

\* no getStudy call is made
NoStudyCall ==
    /\ nctIds = <<>>
    /\ summaryOnly = FALSE
    /\ studyPc = "idle"
    /\ fetches = <<>>
    /\ studiesOut = <<>>
    /\ errorsOut = <<>>
    /\ studyResult = None

\* the server start-up is not followed
NoStartUp ==
    /\ serverPc = "idle"
    /\ transportType = "stdio"
    /\ registered = <<>>
    /\ transportStarted = None
    /\ startFailure = None
    /\ handledErrors = <<>>
    /\ exitCode = None

\* the state of the two-invocation scenario
pairVars == << calls, frames, remotePolicy >>

(***************************************************************************)
(* Trend aggregation (analyzeTrendsLogic).                                 *)
(***************************************************************************)
\* results[key] = (results[key] || 0) + 1
IncrementFromZero(results, key) ==
    IF key \in DOMAIN results
    THEN [results EXCEPT ![key] = @ + 1]
    ELSE results @@ (key :> 0)

\* results[key] = (results[key] ?? 0) + 1
Increment(results, key) ==
    IF key \in DOMAIN results
    THEN [results EXCEPT ![key] = @ + 1]
    ELSE results @@ (key :> 1)

\* list.forEach(entry => { k = entry ?? "Unknown"; results[k] = ... + 1 })
RECURSIVE ForEachIncrement(_, _, _)
ForEachIncrement(results, list, i) ==
    IF i > Len(list) THEN results
    ELSE ForEachIncrement(Increment(results, Coalesce(list[i], "Unknown")),
                          list, i + 1)

\* the default increment after the switch:  if (key) { results[key] = ... }
IncrementIfKey(results, key) ==
    IF Truthy(key) THEN Increment(results, key) ELSE results

\* case "countByStatus"
TallyStatus(results, study) ==
    IncrementIfKey(results, Coalesce(study.overallStatus, "Unknown"))

\* mutant: a study without locations is counted under "Unknown"
TallyCountryUnknown(results, study) ==
    IF study.locations = None \/ study.locations = Some(<<>>)
    THEN Increment(results, "Unknown")
    ELSE ForEachIncrement(results, study.locations[1], 1)

\* case "countByCountry": locations?.forEach(...); continue
TallyCountry(results, study) ==
    IF study.locations = None THEN results
    ELSE ForEachIncrement(results, study.locations[1], 1)

\* case "countBySponsorType"
TallySponsorType(results, study) ==
    IncrementIfKey(results, Coalesce(study.leadSponsorClass, "Unknown"))

\* case "countByPhase": phases = study...phases ?? ["Unknown"]; forEach; continue
TallyPhase(results, study) ==
    ForEachIncrement(results, Coalesce(study.phases, <<Some("Unknown")>>), 1)

\* the body of the inner loop: one study under one analysis type
TallyStudy(type, results, study) ==
    CASE type = "countByStatus"      -> TallyStatus(results, study)
      [] type = "countByCountry"     -> TallyCountry(results, study)
      [] type = "countBySponsorType" -> TallySponsorType(results, study)
      [] type = "countByPhase"       -> TallyPhase(results, study)
      [] OTHER                       -> results

\* the loop body applied to the studies lo..hi in order; the range is split
\* in two halves and the results of the first half are computed (the test on
\* `first`) before the second half continues from them, so that the
\* evaluation of a long loop stays shallow
RECURSIVE TallyRange(_, _, _, _, _)
TallyRange(type, results, studies, lo, hi) ==
    IF lo > hi THEN results
    ELSE IF lo = hi THEN TallyStudy(type, results, studies[lo])
    ELSE LET mid == (lo + hi) \div 2
             first == TallyRange(type, results, studies, lo, mid)
         IN  IF first \in {first}
             THEN TallyRange(type, first, studies, mid + 1, hi)
             ELSE first

\* for (const study of allStudies) { ... }  from study i on
TallyLoop(type, results, studies, i) ==
    TallyRange(type, results, studies, i, Len(studies))

Tally(type, studies) == TallyLoop(type, <<>>, studies, 1)

\* Array.isArray(analysisType) ? analysisType : [analysisType]
AnalysisTypesOf(input) == input.value

RECURSIVE SharedTally(_, _, _)
\* the tally of the i-th type when the results object is not reset per type
SharedTally(types, studies, i) ==
    IF i = 0 THEN <<>>
    ELSE TallyLoop(types[i], SharedTally(types, studies, i - 1), studies, 1)

\* mutant: one results object is shared by all requested types
AnalyzeSharedTally(input, studies) ==
    LET types == AnalysisTypesOf(input) IN
    [ i \in DOMAIN types |->
        [ analysisType |-> types[i],
          totalStudies |-> Len(studies),
          results      |-> SharedTally(types, studies, i) ] ]

\* mutant: every type after the first is computed from a record set of its
\* own, not from the one set fetched
AnalyzeOwnRecords(input, studies) ==
    LET types == AnalysisTypesOf(input) IN
    [ i \in DOMAIN types |->
        [ analysisType |-> types[i],
          totalStudies |-> Len(SubSeq(studies, i, Len(studies))),
          results      |-> Tally(types[i], SubSeq(studies, i, Len(studies))) ] ]

\* the outer loop and the returned { analysis: finalResults }
Analyze(input, studies) ==
    LET types == AnalysisTypesOf(input) IN
    [ i \in DOMAIN types |->
        [ analysisType |-> types[i],
          totalStudies |-> Len(studies),
          results      |-> Tally(types[i], studies) ] ]

(***************************************************************************)
(* The remote source.  A continuation token is an offset into the data     *)
(* set; a request without token reads from the start.                      *)
(***************************************************************************)
OffsetOf(token) == Coalesce(token, 0)

\* the n records following the offset of the request's token
Slice(data, token, n) ==
    SubSeq(data, OffsetOf(token) + 1, Min(OffsetOf(token) + n, Len(data)))

\* the requests listStudies is called with
\* { ...params, pageSize: 1, countTotal: true }
ProbeRequest ==
    [ query |-> searchParams.query, filter |-> searchParams.filter,
      pageSize |-> PROBE_PAGE_SIZE, countTotal |-> TRUE, pageToken |-> None ]

\* mutant: every bulk request is sent without a token
BulkRequestNoToken(token) ==
    [ query |-> searchParams.query, filter |-> searchParams.filter,
      pageSize |-> BULK_PAGE_SIZE, countTotal |-> FALSE, pageToken |-> None ]

\* mutant: the bulk requests are sent without the caller's filter
BulkRequestNoFilter(token) ==
    [ query |-> searchParams.query, filter |-> None,
      pageSize |-> BULK_PAGE_SIZE, countTotal |-> FALSE, pageToken |-> token ]

\* { ...params, pageToken, pageSize: 1000 }
BulkRequest(token) ==
    [ query |-> searchParams.query, filter |-> searchParams.filter,
      pageSize |-> BULK_PAGE_SIZE, countTotal |-> FALSE, pageToken |-> token ]

BulkRequests == SelectSeq(requests, LAMBDA r : ~r.countTotal)

\* the token of the request the remote is answering
InFlightToken ==
    IF requests = <<>> THEN None ELSE requests[Len(requests)].pageToken

(***************************************************************************)
(* Initial state: the tool is about to be called with some analysisType,   *)
(* the remote holds some data set.                                         *)
(***************************************************************************)
Init ==
    /\ pc = "idle"
    /\ dataset \in DataSets
    /\ searchParams \in SearchParamsInputs
    /\ keepHistory = TRUE
    /\ cancelled = None
    /\ analysisType \in AnalysisTypeInputs \cup InvalidAnalysisTypeInputs
    /\ initialResponse = None
    /\ requests = <<>>
    /\ pages = <<>>
    /\ failure = None
    /\ delays = 0
    /\ totalStudies = None
    /\ allStudies = <<>>
    /\ pageToken = None
    /\ hasMore = TRUE
    /\ analysis = None
    /\ error = None
    /\ response = None
    /\ NoStudyCall
    /\ NoStartUp
    /\ calls = <<>>
    /\ frames = <<>>
    /\ remotePolicy = None

\* `The query returned ${totalStudies} studies, which exceeds the limit of
\* ${MAX_STUDIES_FOR_ANALYSIS} for analysis. Please provide a more specific
\* query.`
CapMessage(total) ==
    [ text |-> "The query returned {0} studies, which exceeds the limit of {1} for analysis. Please provide a more specific query.",
      args |-> <<total, MAX_STUDIES_FOR_ANALYSIS>> ]

\* mutant: the cap error raised with the code of an upstream failure
CapErrorAsUnavailable(total) ==
    [ code    |-> "SERVICE_UNAVAILABLE",
      message |-> CapMessage(total),
      details |-> [totalStudies |-> total, limit |-> MAX_STUDIES_FOR_ANALYSIS] ]

\* the scope-too-broad error of fetchAllStudies
CapError(total) ==
    [ code    |-> "INVALID_INPUT",
      message |-> CapMessage(total),
      details |-> [totalStudies |-> total, limit |-> MAX_STUDIES_FOR_ANALYSIS] ]

\* mutant: a missing totalCount is read as the size of the probe page
TotalCountOrPageSize(total) == Coalesce(total, PROBE_PAGE_SIZE)

\* const totalStudies = initialResponse.totalCount ?? 0
TotalCount(total) == Coalesce(total, 0)

\* mutant: the accumulator starts with the records of the probe
AfterProbeKeep(studies, initial) == studies \o initial.studies

\* of initialResponse only totalCount is read: the accumulator is still
\* empty when the loop starts
AfterProbe(studies, initial) == studies

\* mutants of the cap check: one study too late, one study too early
ExceedsCapLate(total) == total > MAX_STUDIES_FOR_ANALYSIS + 1
ExceedsCapInclusive(total) == total >= MAX_STUDIES_FOR_ANALYSIS

\* totalStudies > MAX_STUDIES_FOR_ANALYSIS
ExceedsCap(total) == total > MAX_STUDIES_FOR_ANALYSIS

\* mutant: the zero-total check is missing
NoStudiesNever(total) == FALSE

\* totalStudies === 0
NoStudies(total) == total = 0

\* mutant: the loop goes on as long as a token is returned
HasMoreTokenOnly(token, studies, total) == token # None

\* hasMore = !!pageToken && allStudies.length < totalStudies
HasMore(token, studies, total) == token # None /\ Len(studies) < total

\* mutant: the delay is taken after every bulk response
DelaysAfterAlways(taken, more) == taken + 1

\* if (hasMore) { await delay(API_CALL_DELAY_MS) }:  the delays taken so far
DelaysAfter(taken, more) == IF more THEN taken + 1 ELSE taken

\* mutants: the page is put in front of the accumulator; the page replaces
\* the accumulator
AccumulatePrepend(studies, paged) ==
    IF paged.studies = None THEN studies ELSE paged.studies[1] \o studies
AccumulateReplace(studies, paged) ==
    IF paged.studies = None THEN studies ELSE paged.studies[1]

\* allStudies = allStudies.concat(pagedStudies.studies), if studies is present
Accumulate(studies, paged) ==
    IF paged.studies = None THEN studies ELSE studies \o paged.studies[1]

\* the summary text of the handler: per analysis result a paragraph naming
\* its totalStudies and analysisType and listing its label/count entries
SummaryText(result) ==
    [ i \in DOMAIN result.analysis |->
        << result.analysis[i].totalStudies, result.analysis[i].analysisType,
           result.analysis[i].results >> ]

\* the handler's return value after analyzeTrendsLogic resolved
SuccessResponse(result) ==
    [ isError           |-> FALSE,
      structuredContent |-> result,
      content           |-> SummaryText(result) ]

\* ErrorHandler.handleError(error, ...) as McpError: a structured error is
\* handed back with its code, message and details
HandleError(err) ==
    [ code |-> err.code, message |-> err.message, details |-> err.details ]

\* mutant: a failure is answered with an empty analysis
ErrorResponseEmptyAnalysis(mcpError) ==
    [ isError           |-> FALSE,
      structuredContent |-> [analysis |-> <<>>],
      content           |-> <<>> ]

\* the handler's return value in its catch block
ErrorResponse(mcpError) ==
    [ isError           |-> TRUE,
      structuredContent |-> [ code    |-> mcpError.code,
                              message |-> mcpError.message,
                              details |-> mcpError.details ],
      content           |-> mcpError.message ]

\* a call or a response is recorded
Log(history, entry) ==
    IF keepHistory THEN Append(history, entry) ELSE <<entry>>

\* fetchAllStudies returned studies: analyzeTrendsLogic runs the tallies and
\* resolves, the handler returns the result
ReturnStudies(studies) ==
    LET result == [analysis |-> Analyze(analysisType, studies)] IN
    /\ pc' = "done"
    /\ allStudies' = studies
    /\ analysis' = Some(result.analysis)
    /\ error' = None
    /\ response' = Some(SuccessResponse(result))

\* mutant: the error is swallowed and the records fetched so far are analysed
ThrowSwallowed(err) ==
    LET result == [analysis |-> Analyze(analysisType, allStudies)] IN
    /\ pc' = "done"
    /\ allStudies' = allStudies
    /\ analysis' = Some(result.analysis)
    /\ error' = None
    /\ response' = Some(SuccessResponse(result))

\* an error thrown inside fetchAllStudies: its frame is unwound,
\* analyzeTrendsLogic rejects with the same error and the handler's catch
\* block returns the error response
Throw(err) ==
    /\ pc' = "failed"
    /\ allStudies' = <<>>
    /\ analysis' = None
    /\ error' = Some(err)
    /\ response' = Some(ErrorResponse(HandleError(err)))

(***************************************************************************)
(* The tool is called with arguments the registered input schema accepts:  *)
(* the handler calls analyzeTrendsLogic, fetchAllStudies starts and awaits *)
(* the probe.                                                              *)
(***************************************************************************)
Invoke ==
    /\ pc = "idle"
    /\ SchemaAccepts(analysisType)
    /\ pc' = "probe"
    /\ requests' = Log(requests, ProbeRequest)
    /\ UNCHANGED << dataset, searchParams, keepHistory, cancelled,
                    analysisType, initialResponse, pages, failure, delays,
                    totalStudies, allStudies, pageToken, hasMore, analysis,
                    error, response, pairVars, studyVars, serverVars >>

(***************************************************************************)
(* The tool is called with arguments the registered input schema does not  *)
(* accept: the call is refused and the handler is not run.                 *)
(***************************************************************************)
Reject ==
    /\ pc = "idle"
    /\ ~SchemaAccepts(analysisType)
    /\ pc' = "rejected"
    /\ UNCHANGED << dataset, searchParams, keepHistory, cancelled,
                    analysisType, initialResponse, requests, pages,
                    failure, delays, totalStudies, allStudies, pageToken,
                    hasMore, analysis, error, response, pairVars,
                    studyVars, serverVars >>

(***************************************************************************)
(* The probe resolves with totalCount total and n records.                 *)
(***************************************************************************)
ProbeRespond(total, n) ==
    /\ pc = "probe"
    /\ initialResponse' =
           Some([studies |-> Slice(dataset, None, n), totalCount |-> total])
    /\ LET t == TotalCount(total) IN
       /\ totalStudies' = Some(t)
       /\ IF ExceedsCap(t)
          THEN /\ Throw(CapError(t))
               /\ UNCHANGED requests
          ELSE IF NoStudies(t)
          THEN /\ ReturnStudies(<<>>)
               /\ UNCHANGED requests
          ELSE /\ pc' = "bulk"
               /\ requests' = Log(requests, BulkRequest(pageToken))
               /\ allStudies' = AfterProbe(allStudies, initialResponse'[1])
               /\ UNCHANGED << analysis, error, response >>
    /\ UNCHANGED << dataset, searchParams, keepHistory, cancelled,
                    analysisType, pages, failure, delays, pageToken,
                    hasMore, pairVars, studyVars, serverVars >>

\* the probe rejects
ProbeFail(err) ==
    /\ pc = "probe"
    /\ failure' = Some([error |-> err, request |-> Len(requests)])
    /\ Throw(err)
    /\ UNCHANGED << dataset, searchParams, keepHistory, cancelled,
                    analysisType, initialResponse, requests, pages,
                    delays, totalStudies, pageToken, hasMore, pairVars,
                    studyVars, serverVars >>

(***************************************************************************)
(* A bulk page resolves.  The remote answers the request in flight with up *)
(* to n records from the offset the request's token names, or with no      *)
(* studies field at all, and with any continuation token.                  *)
(***************************************************************************)
PageContents(token) ==
    {None} \cup { Some(Slice(dataset, token, n)) : n \in 0..MaxPageLen }

NextTokens(token, contents) ==
    { None, Some(0),
      Some(OffsetOf(token) + Len(Coalesce(contents, <<>>))) }

BulkRespond(contents, token) ==
    /\ pc = "bulk"
    /\ LET pagedStudies == [studies |-> contents, nextPageToken |-> token]
           acc == Accumulate(allStudies, pagedStudies)
           more == HasMore(token, acc, totalStudies[1])
       IN
       /\ pages' = Log(pages, pagedStudies)
       /\ pageToken' = token
       /\ hasMore' = more
       /\ delays' = IF keepHistory THEN DelaysAfter(delays, more) ELSE delays
       /\ IF more
          THEN /\ pc' = "delay"
               /\ allStudies' = acc
               /\ UNCHANGED << analysis, error, response >>
          ELSE ReturnStudies(acc)
    /\ UNCHANGED << dataset, searchParams, keepHistory, cancelled,
                    analysisType, initialResponse, requests, failure,
                    totalStudies, pairVars, studyVars, serverVars >>

\* a bulk page rejects
BulkFail(err) ==
    /\ pc = "bulk"
    /\ failure' = Some([error |-> err, request |-> Len(requests)])
    /\ Throw(err)
    /\ UNCHANGED << dataset, searchParams, keepHistory, cancelled,
                    analysisType, initialResponse, requests, pages,
                    delays, totalStudies, pageToken, hasMore, pairVars,
                    studyVars, serverVars >>

(***************************************************************************)
(* The throttle delay elapses: the loop issues the next bulk request.      *)
(***************************************************************************)
NextIteration ==
    /\ pc = "delay"
    /\ pc' = "bulk"
    /\ requests' = Log(requests, BulkRequest(pageToken))
    /\ UNCHANGED << dataset, searchParams, keepHistory, cancelled,
                    analysisType, initialResponse, pages, failure, delays,
                    totalStudies, allStudies, pageToken, hasMore, analysis,
                    error, response, pairVars, studyVars, serverVars >>

\* the next iteration, as long as fewer than MaxBulk bulk requests were made
DelayElapsed ==
    /\ Len(BulkRequests) < MaxBulk
    /\ NextIteration

Next ==
    \/ Invoke
    \/ Reject
    \/ \E total \in ProbeTotals, n \in 0..PROBE_PAGE_SIZE : ProbeRespond(total, n)
    \/ \E err \in UpstreamErrors : ProbeFail(err)
    \/ \E contents \in PageContents(InFlightToken) :
          \E token \in NextTokens(InFlightToken, contents) :
             BulkRespond(contents, token)
    \/ \E err \in UpstreamErrors : BulkFail(err)
    \/ DelayElapsed

Spec == Init /\ [][Next]_vars

TypeOK ==
    /\ pc \in {"idle", "rejected", "probe", "bulk", "delay", "done", "failed"}
    /\ delays \in Nat
    /\ hasMore \in BOOLEAN

(***************************************************************************)
(* A fetch of a large result.  The remote holds more records than the cap, *)
(* reports a total within the cap and serves every bulk request with a     *)
(* page of the requested size or one record less, always with the token of *)
(* the next page.                                                          *)
(***************************************************************************)
LargeData ==
    [ k \in 1..(MAX_STUDIES_FOR_ANALYSIS + BULK_PAGE_SIZE) |-> bareStudy ]

LargeTotals ==
    { Some(MAX_STUDIES_FOR_ANALYSIS - BULK_PAGE_SIZE + 1),
      Some(MAX_STUDIES_FOR_ANALYSIS),
      Some(MAX_STUDIES_FOR_ANALYSIS + 1) }

LargePageLens == { BULK_PAGE_SIZE - 1, BULK_PAGE_SIZE }

InitLarge ==
    /\ pc = "idle"
    /\ dataset = LargeData
    /\ searchParams = [query |-> Some("cancer"), filter |-> None]
    /\ keepHistory = TRUE
    /\ cancelled = None
    /\ analysisType \in AnalysisTypeInputs
    /\ initialResponse = None
    /\ requests = <<>>
    /\ pages = <<>>
    /\ failure = None
    /\ delays = 0
    /\ totalStudies = None
    /\ allStudies = <<>>
    /\ pageToken = None
    /\ hasMore = TRUE
    /\ analysis = None
    /\ error = None
    /\ response = None
    /\ NoStudyCall
    /\ NoStartUp
    /\ calls = <<>>
    /\ frames = <<>>
    /\ remotePolicy = None

\* the next iteration, as long as fewer than MaxBulkLarge bulk requests were
\* made
DelayElapsedLarge ==
    /\ Len(BulkRequests) < MaxBulkLarge
    /\ NextIteration

NextLarge ==
    \/ Invoke
    \/ \E total \in LargeTotals : ProbeRespond(total, PROBE_PAGE_SIZE)
    \/ \E n \in LargePageLens :
          BulkRespond(Some(Slice(dataset, InFlightToken, n)),
                      Some(OffsetOf(InFlightToken) + n))
    \/ \E err \in UpstreamErrors : BulkFail(err)
    \/ DelayElapsedLarge

SpecLarge == InitLarge /\ [][NextLarge]_vars

(***************************************************************************)
(* One invocation whose caller may cancel it.  The signal of the call      *)
(* context fires while the invocation awaits a call or a delay.  The       *)
(* handler uses the call context as the parent of its logging context      *)
(* only: no code of the tool listens to the signal or hands it to          *)
(* listStudies, so the step changes nothing in the invocation.             *)
(***************************************************************************)
Cancel ==
    /\ pc \in {"probe", "bulk", "delay"}
    /\ cancelled = None
    /\ cancelled' = Some([requests |-> Len(requests), delays |-> delays])
    /\ UNCHANGED << pc, dataset, searchParams, keepHistory, analysisType,
                    initialResponse, requests, pages, failure, delays,
                    totalStudies, allStudies, pageToken, hasMore, analysis,
                    error, response, pairVars, studyVars, serverVars >>

NextCancel == Next \/ Cancel

SpecCancel == Init /\ [][NextCancel]_vars

(***************************************************************************)
(* One invocation followed for as long as it runs.  Only the latest call   *)
(* and response are recorded, the remote reports a small total and answers *)
(* as in Spec; the loop is not cut off after a number of bulk requests.    *)
(* Every awaited call is eventually answered or fails and every delay      *)
(* eventually elapses.                                                     *)
(***************************************************************************)
LiveTotals == { Some(0), Some(2), Some(3), Some(MAX_STUDIES_FOR_ANALYSIS + 1) }

InitLive ==
    /\ pc = "idle"
    /\ dataset \in DataSets
    /\ searchParams \in SearchParamsInputs
    /\ keepHistory = FALSE
    /\ cancelled = None
    /\ analysisType \in AnalysisTypeInputs
    /\ initialResponse = None
    /\ requests = <<>>
    /\ pages = <<>>
    /\ failure = None
    /\ delays = 0
    /\ totalStudies = None
    /\ allStudies = <<>>
    /\ pageToken = None
    /\ hasMore = TRUE
    /\ analysis = None
    /\ error = None
    /\ response = None
    /\ NoStudyCall
    /\ NoStartUp
    /\ calls = <<>>
    /\ frames = <<>>
    /\ remotePolicy = None

NextLive ==
    \/ Invoke
    \/ \E total \in LiveTotals, n \in 0..PROBE_PAGE_SIZE : ProbeRespond(total, n)
    \/ \E err \in UpstreamErrors : ProbeFail(err)
    \/ \E contents \in PageContents(InFlightToken) :
          \E token \in NextTokens(InFlightToken, contents) :
             BulkRespond(contents, token)
    \/ \E err \in UpstreamErrors : BulkFail(err)
    \/ NextIteration

SpecLive == InitLive /\ [][NextLive]_vars /\ WF_vars(NextLive)

(***************************************************************************)
(* Two invocations of the tool in flight at once.  Each call runs the code *)
(* of the handler; the calls interleave at their awaits.  The remote holds *)
(* one data set that does not change and answers a request by its token    *)
(* alone: the probe with the policy's total, a bulk request with the       *)
(* pageLen records at the token's offset and the token of the next page,   *)
(* as long as there is one.                                                *)
(***************************************************************************)
Calls == {1, 2}

\* the call other than p
Other(p) == 3 - p

PairTotals == { Some(0), Some(2), Some(3), Some(MAX_STUDIES_FOR_ANALYSIS + 1) }

PairInputs ==
    { [isArray |-> FALSE, value |-> <<"countByStatus">>],
      [isArray |-> TRUE,  value |-> <<"countByCountry", "countBySponsorType">>],
      [isArray |-> TRUE,  value |-> <<"countByPhase", "countByStatus">>] }

\* the error of a failing listStudies call
PolicyError ==
    CHOOSE e \in UpstreamErrors : e.code = "SERVICE_UNAVAILABLE"

PolicyProbe ==
    [ studies    |-> Slice(dataset, None, PROBE_PAGE_SIZE),
      totalCount |-> remotePolicy.total ]

PolicyPage(token) ==
    LET next == OffsetOf(token) + remotePolicy.pageLen IN
    [ studies       |-> Some(Slice(dataset, token, remotePolicy.pageLen)),
      nextPageToken |-> IF next < Len(dataset) THEN Some(next) ELSE None ]

\* the bulk request with this token is answered with an error
PolicyFails(token) == remotePolicy.failAt = Some(OffsetOf(token))

\* mutant: the locals of fetchAllStudies are module-level variables, one
\* set for all calls
FrameShared(p) == 1

\* allStudies, pageToken, hasMore and totalStudies are locals of
\* fetchAllStudies: every call has its own
Frame(p) == p

\* a frame before fetchAllStudies has run in it
NewFrame ==
    [ totalStudies |-> None, allStudies |-> <<>>, pageToken |-> None,
      hasMore |-> TRUE ]

\* let allStudies = []; let pageToken = undefined; let hasMore = true
EnterFrame(frame) ==
    [ frame EXCEPT !.allStudies = <<>>, !.pageToken = None, !.hasMore = TRUE ]

NewCall(input) ==
    [ pc |-> "idle", analysisType |-> input, requests |-> <<>>,
      analysis |-> None, error |-> None, response |-> None,
      overlapped |-> FALSE ]

InFlight(p) == calls[p].pc \in {"probe", "bulk", "delay"}

InitPair ==
    /\ pc = "idle"
    /\ dataset \in DataSets
    /\ searchParams \in SearchParamsInputs
    /\ keepHistory = TRUE
    /\ cancelled = None
    /\ analysisType \in { input \in PairInputs : ~input.isArray }
    /\ initialResponse = None
    /\ requests = <<>>
    /\ pages = <<>>
    /\ failure = None
    /\ delays = 0
    /\ totalStudies = None
    /\ allStudies = <<>>
    /\ pageToken = None
    /\ hasMore = TRUE
    /\ analysis = None
    /\ error = None
    /\ response = None
    /\ NoStudyCall
    /\ NoStartUp
    /\ calls \in [Calls -> { NewCall(input) : input \in PairInputs }]
    /\ frames = [p \in Calls |-> NewFrame]
    /\ remotePolicy \in [ total   : PairTotals,
                          pageLen : 1..MaxPageLen,
                          failAt  : {None, Some(MaxPageLen)} ]

\* the single-invocation variables, not used by the two calls
singleVars ==
    << pc, analysisType, initialResponse, requests, pages, failure, delays,
       totalStudies, allStudies, pageToken, hasMore, analysis, error,
       response >>

\* call p takes a step: whether the other call was awaiting meanwhile
Overlap(p) == calls[p].overlapped \/ InFlight(Other(p))

\* analyzeTrendsLogic of call p resolves and its handler returns
CallReturns(p, studies) ==
    LET result == [analysis |-> Analyze(calls[p].analysisType, studies)] IN
    [ calls[p] EXCEPT !.pc = "done",
                      !.analysis = Some(result.analysis),
                      !.response = Some(SuccessResponse(result)),
                      !.overlapped = Overlap(p) ]

\* analyzeTrendsLogic of call p rejects and its handler returns
CallThrows(p, err) ==
    [ calls[p] EXCEPT !.pc = "failed",
                      !.error = Some(err),
                      !.response = Some(ErrorResponse(HandleError(err))),
                      !.overlapped = Overlap(p) ]

\* call p enters the handler, fetchAllStudies sets up its locals and awaits
\* the probe
PairInvoke(p) ==
    /\ calls[p].pc = "idle"
    /\ calls' = [calls EXCEPT ![p] =
                     [@ EXCEPT !.pc = "probe",
                               !.requests = Append(@, ProbeRequest),
                               !.overlapped = Overlap(p)]]
    /\ frames' = [frames EXCEPT ![Frame(p)] = EnterFrame(@)]
    /\ UNCHANGED << dataset, searchParams, keepHistory, cancelled,
                    remotePolicy, singleVars, studyVars, serverVars >>

\* the probe of call p resolves
PairProbeRespond(p) ==
    /\ calls[p].pc = "probe"
    /\ LET t == TotalCount(PolicyProbe.totalCount)
           f == Frame(p)
       IN
       IF ExceedsCap(t)
       THEN /\ calls' = [calls EXCEPT ![p] = CallThrows(p, CapError(t))]
            /\ frames' = [frames EXCEPT ![f].totalStudies = Some(t)]
       ELSE IF NoStudies(t)
       THEN /\ calls' = [calls EXCEPT ![p] = CallReturns(p, <<>>)]
            /\ frames' = [frames EXCEPT ![f].totalStudies = Some(t)]
       ELSE /\ calls' = [calls EXCEPT ![p] =
                            [@ EXCEPT !.pc = "bulk",
                                      !.requests =
                                          Append(@, BulkRequest(frames[f].pageToken)),
                                      !.overlapped = Overlap(p)]]
            /\ frames' = [frames EXCEPT ![f].totalStudies = Some(t)]
    /\ UNCHANGED << dataset, searchParams, keepHistory, cancelled,
                    remotePolicy, singleVars, studyVars, serverVars >>

\* the bulk request of call p in flight resolves or rejects
PairBulkRespond(p) ==
    /\ calls[p].pc = "bulk"
    /\ LET f == Frame(p)
           sent == calls[p].requests[Len(calls[p].requests)].pageToken
       IN
       IF PolicyFails(sent)
       THEN /\ calls' = [calls EXCEPT ![p] = CallThrows(p, PolicyError)]
            /\ UNCHANGED frames
       ELSE LET pagedStudies == PolicyPage(sent)
                acc == Accumulate(frames[f].allStudies, pagedStudies)
                more == HasMore(pagedStudies.nextPageToken, acc,
                                frames[f].totalStudies[1])
            IN
            /\ frames' = [frames EXCEPT ![f].allStudies = acc,
                                        ![f].pageToken = pagedStudies.nextPageToken,
                                        ![f].hasMore = more]
            /\ calls' = [calls EXCEPT ![p] =
                            IF more
                            THEN [@ EXCEPT !.pc = "delay",
                                           !.overlapped = Overlap(p)]
                            ELSE CallReturns(p, acc)]
    /\ UNCHANGED << dataset, searchParams, keepHistory, cancelled,
                    remotePolicy, singleVars, studyVars, serverVars >>

\* the throttle delay of call p elapses: the next bulk request is issued
PairDelayElapsed(p) ==
    /\ calls[p].pc = "delay"
    /\ calls' = [calls EXCEPT ![p] =
                     [@ EXCEPT !.pc = "bulk",
                               !.requests =
                                   Append(@, BulkRequest(frames[Frame(p)].pageToken)),
                               !.overlapped = Overlap(p)]]
    /\ UNCHANGED << frames, dataset, searchParams, keepHistory, cancelled,
                    remotePolicy, singleVars, studyVars, serverVars >>

NextPair ==
    \E p \in Calls :
        \/ PairInvoke(p)
        \/ PairProbeRespond(p)
        \/ PairBulkRespond(p)
        \/ PairDelayElapsed(p)

SpecPair == InitPair /\ [][NextPair]_vars

(***************************************************************************)
(* The clinicaltrials_get_study tool (getStudyLogic).  All fetchStudy      *)
(* calls are issued at once by nctIds.map; each settles on its own, in any *)
(* order, and the continuation of its callback pushes to studies or to     *)
(* errors; getStudyLogic resumes after Promise.all.                        *)
(***************************************************************************)
StudyIds == {"NCT12345678", "NCT87654321"}

\* the request lists explored: 1..MaxIds IDs, repetitions allowed
NctIdInputs == UNION { [1..n -> StudyIds] : n \in 1..MaxIds }

\* how a fetchStudy call can settle: with a study, with no study, rejecting
\* with an McpError of the service, rejecting with another error
FetchOutcomes == {"study", "null", "mcpError", "otherError"}

\* the study the remote holds under an NCT ID (the fields the summary reads,
\* and one it does not)
FetchedStudy(nctId) ==
    [ nctId         |-> nctId,
      officialTitle |-> "Test Study",
      briefSummary  |-> "A brief summary.",
      overallStatus |-> "COMPLETED",
      conditions    |-> <<"Test Condition">>,
      interventions |-> << [ name |-> "Test Intervention", type |-> "Drug",
                             description |-> "Test Drug" ] >>,
      leadSponsor   |-> [name |-> "Test Sponsor", class |-> "INDUSTRY"],
      hasResults    |-> FALSE ]

createStudySummary(study) ==
    [ nctId         |-> study.nctId,
      title         |-> study.officialTitle,
      briefSummary  |-> study.briefSummary,
      overallStatus |-> study.overallStatus,
      conditions    |-> study.conditions,
      interventions |-> [ k \in DOMAIN study.interventions |->
                            [ name |-> study.interventions[k].name,
                              type |-> study.interventions[k].type ] ],
      leadSponsor   |-> study.leadSponsor.name ]

\* params.summaryOnly ? createStudySummary(study) : study
StudyEntry(summary, study) ==
    IF summary THEN createStudySummary(study) ELSE study

\* the message recorded for a failed ID: the message of an McpError (the one
\* thrown for a missing study, the one of the service), or a fixed text
ErrorMessage(outcome, nctId) ==
    IF outcome = "null"
    THEN [ text |-> "Study with NCT ID '{0}' not found.", args |-> <<nctId>> ]
    ELSE IF outcome = "mcpError"
    THEN [ text |-> "API request failed with status {0}", args |-> <<"500">> ]
    ELSE [ text |-> "An unexpected error occurred", args |-> <<>> ]

\* mutant: errors is always part of the result
GetStudyOutputWithErrors(studyEntries, errorEntries) ==
    [ studies |-> studyEntries, errors |-> Some(errorEntries) ]

\* const result = { studies }; if (errors.length > 0) result.errors = errors
GetStudyOutput(studyEntries, errorEntries) ==
    [ studies |-> studyEntries,
      errors  |-> IF Len(errorEntries) > 0 THEN Some(errorEntries) ELSE None ]

\* the variables of the analysis tool
analyzeVars ==
    << dataset, searchParams, keepHistory, cancelled, singleVars, pairVars >>

InitStudy ==
    /\ pc = "idle"
    /\ dataset = <<>>
    /\ searchParams = [query |-> None, filter |-> None]
    /\ keepHistory = TRUE
    /\ cancelled = None
    /\ analysisType = [isArray |-> FALSE, value |-> <<"countByStatus">>]
    /\ initialResponse = None
    /\ requests = <<>>
    /\ pages = <<>>
    /\ failure = None
    /\ delays = 0
    /\ totalStudies = None
    /\ allStudies = <<>>
    /\ pageToken = None
    /\ hasMore = TRUE
    /\ analysis = None
    /\ error = None
    /\ response = None
    /\ calls = <<>>
    /\ frames = <<>>
    /\ remotePolicy = None
    /\ NoStartUp
    /\ nctIds \in NctIdInputs
    /\ summaryOnly \in BOOLEAN
    /\ studyPc = "idle"
    /\ fetches = <<>>
    /\ studiesOut = <<>>
    /\ errorsOut = <<>>
    /\ studyResult = None

\* getStudyLogic is called: nctIds.map issues every fetchStudy call, then
\* Promise.all is awaited
GetStudy ==
    /\ studyPc = "idle"
    /\ studyPc' = "awaiting"
    /\ fetches' = [i \in DOMAIN nctIds |-> "pending"]
    /\ UNCHANGED << nctIds, summaryOnly, studiesOut, errorsOut, studyResult,
                    analyzeVars, serverVars >>

\* the fetchStudy call of position i settles and its callback runs to its
\* end: the try block pushes the study, or the catch block the error
FetchSettles(i, outcome) ==
    /\ studyPc = "awaiting"
    /\ i \in DOMAIN fetches
    /\ fetches[i] = "pending"
    /\ fetches' = [fetches EXCEPT ![i] = outcome]
    /\ IF outcome = "study"
       THEN /\ studiesOut' =
                  Append(studiesOut,
                         StudyEntry(summaryOnly, FetchedStudy(nctIds[i])))
            /\ UNCHANGED errorsOut
       ELSE /\ errorsOut' =
                  Append(errorsOut,
                         [ nctId |-> nctIds[i],
                           error |-> ErrorMessage(outcome, nctIds[i]) ])
            /\ UNCHANGED studiesOut
    /\ UNCHANGED << nctIds, summaryOnly, studyPc, studyResult, analyzeVars,
                    serverVars >>

\* every callback has ended: Promise.all resolves and getStudyLogic returns
GetStudyReturns ==
    /\ studyPc = "awaiting"
    /\ \A i \in DOMAIN fetches : fetches[i] # "pending"
    /\ studyPc' = "done"
    /\ studyResult' = Some(GetStudyOutput(studiesOut, errorsOut))
    /\ UNCHANGED << nctIds, summaryOnly, fetches, studiesOut, errorsOut,
                    analyzeVars, serverVars >>

NextStudy ==
    \/ GetStudy
    \/ \E i \in 1..MaxIds, outcome \in FetchOutcomes : FetchSettles(i, outcome)
    \/ GetStudyReturns

SpecStudy == InitStudy /\ [][NextStudy]_vars

(***************************************************************************)
(* Server start-up (initializeAndStartServer, startTransport,              *)
(* createMcpServerInstance).  Every awaited registration and the awaited   *)
(* transport start either completes or fails.                              *)
(***************************************************************************)
\* the registrations of createMcpServerInstance, in the order awaited
Tools == <<"getStudy", "searchStudies", "analyzeTrends", "createLink">>

TransportTypes == {"stdio", "http", "invalid"}

\* errors a registration or a transport start may reject with
StartUpErrors == {"Registration failed", "Critical Failure"}

\* Unsupported transport type: ${transportType}. Must be 'stdio' or 'http'.
UnsupportedTransport(type) ==
    [ text |-> "Unsupported transport type: {0}. Must be 'stdio' or 'http'.",
      args |-> <<type>> ]

\* mutant: the stdio transport is started once the first registration is done
AllRegisteredFirstOnly(done) == Len(done) >= 1

\* the four awaited registrations are done: createMcpServerInstance returns
AllRegistered(done) == Len(done) = Len(Tools)

InitServer ==
    /\ pc = "idle"
    /\ dataset = <<>>
    /\ searchParams = [query |-> None, filter |-> None]
    /\ keepHistory = TRUE
    /\ cancelled = None
    /\ analysisType = [isArray |-> FALSE, value |-> <<"countByStatus">>]
    /\ initialResponse = None
    /\ requests = <<>>
    /\ pages = <<>>
    /\ failure = None
    /\ delays = 0
    /\ totalStudies = None
    /\ allStudies = <<>>
    /\ pageToken = None
    /\ hasMore = TRUE
    /\ analysis = None
    /\ error = None
    /\ response = None
    /\ calls = <<>>
    /\ frames = <<>>
    /\ remotePolicy = None
    /\ nctIds \in NctIdInputs
    /\ summaryOnly \in BOOLEAN
    /\ studyPc = "idle"
    /\ fetches = <<>>
    /\ studiesOut = <<>>
    /\ errorsOut = <<>>
    /\ studyResult = None
    /\ serverPc = "idle"
    /\ transportType \in TransportTypes
    /\ registered = <<>>
    /\ transportStarted = None
    /\ startFailure = None
    /\ handledErrors = <<>>
    /\ exitCode = None

\* the catch block of initializeAndStartServer: the error is handed to
\* ErrorHandler.handleError as critical and the process exits with code 1
InitializationFails(stage, err) ==
    /\ startFailure' = Some([stage |-> stage, error |-> err])
    /\ handledErrors' =
           Append(handledErrors,
                  [ error     |-> err,
                    operation |-> "initializeAndStartServer_Catch",
                    critical  |-> TRUE ])
    /\ exitCode' = Some(1)
    /\ serverPc' = "exited"

\* initializeAndStartServer is called: startTransport reads the transport
\* type and awaits the http transport, or the first registration, or throws
StartServer ==
    /\ serverPc = "idle"
    /\ IF transportType = "http"
       THEN /\ serverPc' = "starting"
            /\ transportStarted' = Some("http")
            /\ UNCHANGED << startFailure, handledErrors, exitCode >>
       ELSE IF transportType = "stdio"
       THEN /\ serverPc' = "registering"
            /\ UNCHANGED << transportStarted, startFailure, handledErrors,
                            exitCode >>
       ELSE /\ InitializationFails("transportType",
                                   UnsupportedTransport(transportType))
            /\ UNCHANGED transportStarted
    /\ UNCHANGED << transportType, registered, analyzeVars, studyVars >>

\* the awaited registration completes: the next one is awaited, or
\* createMcpServerInstance returns and the stdio transport start is awaited
RegistrationCompletes ==
    /\ serverPc = "registering"
    /\ LET done == Append(registered, Tools[Len(registered) + 1]) IN
       /\ registered' = done
       /\ IF AllRegistered(done)
          THEN /\ serverPc' = "starting"
               /\ transportStarted' = Some("stdio")
          ELSE UNCHANGED << serverPc, transportStarted >>
    /\ UNCHANGED << transportType, startFailure, handledErrors, exitCode,
                    analyzeVars, studyVars >>

\* the awaited registration rejects: createMcpServerInstance logs and
\* rethrows, startTransport rejects
RegistrationFails(err) ==
    /\ serverPc = "registering"
    /\ InitializationFails("registration", err)
    /\ UNCHANGED << transportType, registered, transportStarted, analyzeVars,
                    studyVars >>

\* the awaited transport start completes
TransportStarts ==
    /\ serverPc = "starting"
    /\ serverPc' = "running"
    /\ UNCHANGED << transportType, registered, transportStarted, startFailure,
                    handledErrors, exitCode, analyzeVars, studyVars >>

\* the awaited transport start rejects
TransportFails(err) ==
    /\ serverPc = "starting"
    /\ InitializationFails("transport", err)
    /\ UNCHANGED << transportType, registered, transportStarted, analyzeVars,
                    studyVars >>

\* a request for the registered getStudy tool is served over the connected
\* stdio transport
ServeGetStudy ==
    /\ serverPc = "running"
    /\ transportType = "stdio"
    /\ \E i \in 1..Len(registered) : registered[i] = "getStudy"
    /\ NextStudy

NextServer ==
    \/ StartServer
    \/ RegistrationCompletes
    \/ \E err \in StartUpErrors : RegistrationFails(err)
    \/ TransportStarts
    \/ \E err \in StartUpErrors : TransportFails(err)
    \/ ServeGetStudy

SpecServer == InitServer /\ [][NextServer]_vars

(***************************************************************************)
(* Properties.                                                             *)
(***************************************************************************)
\* the total the probe reported, a missing totalCount read as 0
ProbedTotal == Coalesce(initialResponse[1].totalCount, 0)

ProbeAnswered == initialResponse # None

\* the fetch returned and the analysis resolved
Returned == pc = "done"

Results == analysis[1]

RECURSIVE Flatten(_, _)
\* the records of the pages i.. in the order received
Flatten(ps, i) ==
    IF i > Len(ps) THEN <<>>
    ELSE Coalesce(ps[i].studies, <<>>) \o Flatten(ps, i + 1)

RECURSIVE SumTally(_, _)
\* the sum of the values of a tally over the labels in keys
SumTally(tally, keys) ==
    IF keys = {} THEN 0
    ELSE LET k == CHOOSE x \in keys : TRUE
         IN tally[k] + SumTally(tally, keys \ {k})

TallySum(tally) == SumTally(tally, DOMAIN tally)

Ceil(a, b) == (a + b - 1) \div b

\* C1: when the probe reports more than 5000 studies the invocation has made
\* exactly one remote call, the probe, has failed with the invalid-input
\* error whose details are the reported total and the limit 5000, and has
\* issued no bulk request.
CapEnforcement ==
    (ProbeAnswered /\ ProbedTotal > 5000) =>
        /\ pc = "failed"
        /\ requests = <<ProbeRequest>>
        /\ BulkRequests = <<>>
        /\ analysis = None
        /\ error # None
        /\ error[1].code = "INVALID_INPUT"
        /\ error[1].details = [totalStudies |-> ProbedTotal, limit |-> 5000]

CapEnforcementWitness ==
    /\ ProbeAnswered
    /\ ProbedTotal = 5001
    /\ pc = "failed"

\* every bulk response so far is the next page of a result of T records
\* served in pages of P records, all but the last with a continuation token
PagedHonestly(T, P) ==
    \A k \in 1..Len(pages) :
        /\ pages[k].studies # None
        /\ Len(pages[k].studies[1]) = Min(P, T - (k - 1) * P)
        /\ (pages[k].nextPageToken # None) <=> (k * P < T)

\* C2: when the probe reported T with 0 < T <= 5000 and the remote served the
\* T records in pages of P, the fetch that returned has issued exactly
\* ceil(T/P) bulk requests and returned exactly the T records in page order.
FullRetrieval ==
    \A P \in 1..MaxPageLen :
        (Returned /\ ProbedTotal > 0 /\ PagedHonestly(ProbedTotal, P)) =>
            /\ Len(BulkRequests) = Ceil(ProbedTotal, P)
            /\ Len(allStudies) = ProbedTotal
            /\ allStudies = Flatten(pages, 1)
            /\ \A i \in DOMAIN Results : Results[i].totalStudies = ProbedTotal

FullRetrievalWitness ==
    /\ Returned
    /\ ProbedTotal = 3
    /\ PagedHonestly(3, 2)
    /\ Len(pages) = 2
    /\ allStudies = mockStudies

\* C3: once the probe or a bulk page request has failed, the invocation has
\* failed with exactly that upstream error, no request was issued after the
\* failed one, the accumulator is empty and no analysis was returned.
FetchFailurePropagation ==
    failure # None =>
        /\ pc = "failed"
        /\ error = Some(failure[1].error)
        /\ Len(requests) = failure[1].request
        /\ allStudies = <<>>
        /\ analysis = None

FetchFailurePropagationWitness ==
    /\ failure # None
    /\ Len(pages) = 2
    /\ pc = "failed"

ZeroResultShortCircuit ==
    (ProbeAnswered /\ initialResponse[1].totalCount = Some(0)) =>
        /\ Returned
        /\ error = None
        /\ allStudies = <<>>
        /\ BulkRequests = <<>>
        /\ requests = <<ProbeRequest>>
        /\ Len(Results) = Len(AnalysisTypesOf(analysisType))
        /\ \A i \in DOMAIN Results :
              /\ Results[i].totalStudies = 0
              /\ DOMAIN Results[i].results = {}

ZeroResultShortCircuitWitness ==
    /\ ProbeAnswered
    /\ initialResponse[1].totalCount = Some(0)
    /\ initialResponse[1].studies # <<>>
    /\ Returned
    /\ Len(Results) = 2

\* the error is the invalid-input error with the cap details for total
IsCapError(err, total) ==
    /\ err.code = "INVALID_INPUT"
    /\ err.details = [totalStudies |-> total, limit |-> 5000]

\* C6: a failed invocation carries the invalid-input code with details
\* {totalStudies: probed total, limit: 5000} exactly when the probe succeeded
\* and reported more than 5000; a failed probe or bulk request is never
\* reported with that code or with such details.
CapErrorDistinguishable ==
    pc = "failed" =>
        /\ error # None
        /\ (ProbeAnswered /\ failure = None /\ ProbedTotal > 5000)
              <=> (ProbeAnswered /\ IsCapError(error[1], ProbedTotal))
        /\ failure # None =>
              /\ error[1].code # "INVALID_INPUT"
              /\ \A t \in 0..9999 : ~IsCapError(error[1], t)
              /\ DOMAIN error[1].details # {"totalStudies", "limit"}

CapErrorDistinguishableWitness ==
    /\ pc = "failed"
    /\ failure # None
    /\ ProbeAnswered
    /\ ProbedTotal = 5000
    /\ error[1].code = "SERVICE_UNAVAILABLE"

\* C7: a probed total of exactly 5000 is not rejected, the first bulk request
\* is issued; the cap error is raised only for a probed total above 5000.
CapBoundary ==
    /\ (ProbeAnswered /\ ProbedTotal = 5000) =>
          /\ Len(BulkRequests) >= 1
          /\ error # None => ~IsCapError(error[1], 5000)
          /\ pc = "failed" => failure # None
    /\ (ProbeAnswered /\ error # None /\ error[1].code = "INVALID_INPUT") =>
          ProbedTotal > 5000

CapBoundaryWitness ==
    /\ ProbeAnswered
    /\ ProbedTotal = 5000
    /\ Returned
    /\ Len(allStudies) > 0

\* C8: in every returned countByStatus and countBySponsorType result the
\* tally values sum to totalStudies, every study having been counted once.
SingleValuedTallySum ==
    Returned =>
        \A i \in DOMAIN Results :
            Results[i].analysisType \in {"countByStatus", "countBySponsorType"}
                => TallySum(Results[i].results) = Results[i].totalStudies

\* the studies of a sequence with no phase entry: list absent, or empty
ZeroPhaseStudies(studies) ==
    { k \in DOMAIN studies :
        studies[k].phases = None \/ studies[k].phases = Some(<<>>) }

\* the phase entries of a sequence of studies, as (study, entry) positions
PhaseEntries(studies) ==
    UNION { { <<k, j>> : j \in DOMAIN studies[k].phases[1] } :
              k \in { n \in DOMAIN studies : studies[n].phases # None } }

\* C9: in every returned countByPhase result each study without phase
\* entries (list absent or empty) is counted once under "Unknown" and each
\* phase entry of the other studies is counted once, so that the tally sums to
\* at least the number of studies.
PhaseTallyEmptyCounted ==
    Returned =>
        \A i \in DOMAIN Results :
            Results[i].analysisType = "countByPhase" =>
                /\ TallySum(Results[i].results) =
                      Cardinality(ZeroPhaseStudies(allStudies))
                        + Cardinality(PhaseEntries(allStudies))
                /\ TallySum(Results[i].results) >= Results[i].totalStudies
                /\ ZeroPhaseStudies(allStudies) # {} =>
                      /\ "Unknown" \in DOMAIN Results[i].results
                      /\ Results[i].results["Unknown"] >=
                            Cardinality(ZeroPhaseStudies(allStudies))

\* the location entries of a sequence of studies, as (study, entry) positions
LocationEntries(studies) ==
    UNION { { <<k, j>> : j \in DOMAIN studies[k].locations[1] } :
              k \in { n \in DOMAIN studies : studies[n].locations # None } }

\* the country a location entry is counted under
CountryOf(studies, kj) ==
    Coalesce(studies[kj[1]].locations[1][kj[2]], "Unknown")

\* C10: in every returned countByCountry result each label is mapped to the
\* number of location entries of the fetched studies naming it (repeats
\* within one study included), only countries of some entry are labels (a
\* study without entries adds nothing, no "Unknown" either), and the tally
\* sums to the number of location entries.
CountryTally ==
    Returned =>
        \A i \in DOMAIN Results :
            Results[i].analysisType = "countByCountry" =>
                LET tally == Results[i].results
                    entries == LocationEntries(allStudies)
                IN /\ DOMAIN tally = { CountryOf(allStudies, e) : e \in entries }
                   /\ \A c \in DOMAIN tally :
                         tally[c] = Cardinality(
                             { e \in entries : CountryOf(allStudies, e) = c })
                   /\ TallySum(tally) = Cardinality(entries)

CountryTallyWitness ==
    /\ Returned
    /\ \E i \in DOMAIN Results :
          /\ Results[i].analysisType = "countByCountry"
          /\ Results[i].totalStudies = 4
          /\ Results[i].results = ("USA" :> 3 @@ "Unknown" :> 1)
    /\ \E k \in DOMAIN allStudies : allStudies[k].locations = None
    /\ \E k \in DOMAIN allStudies : allStudies[k].locations = Some(<<>>)

\* the contributions of a sequence of studies to the tally of a type, as
\* (study, entry, label) triples: one per study for status and sponsor class,
\* one per location entry for country, one per phase entry for phase and one
\* "Unknown" for a study without phase entries
Contributions(type, studies) ==
    CASE type = "countByStatus" ->
           { <<k, 1, Coalesce(studies[k].overallStatus, "Unknown")>> :
               k \in DOMAIN studies }
      [] type = "countBySponsorType" ->
           { <<k, 1, Coalesce(studies[k].leadSponsorClass, "Unknown")>> :
               k \in DOMAIN studies }
      [] type = "countByCountry" ->
           { <<e[1], e[2], CountryOf(studies, e)>> :
               e \in LocationEntries(studies) }
      [] type = "countByPhase" ->
           { <<e[1], e[2], Coalesce(studies[e[1]].phases[1][e[2]], "Unknown")>> :
               e \in PhaseEntries(studies) }
           \cup { <<k, 0, "Unknown">> : k \in ZeroPhaseStudies(studies) }

\* the tally agrees with the contributions: its labels are the labels of the
\* contributions and each is mapped to the number of contributions carrying it
MatchesReference(tally, contributions) ==
    /\ DOMAIN tally = { c[3] : c \in contributions }
    /\ \A label \in DOMAIN tally :
          tally[label] = Cardinality({ c \in contributions : c[3] = label })

\* the tallies of the three-study fixture
FixtureTally(type) ==
    CASE type = "countByStatus"      -> ("COMPLETED" :> 2 @@ "RECRUITING" :> 1)
      [] type = "countByCountry"     -> ("USA" :> 2 @@ "Canada" :> 2)
      [] type = "countBySponsorType" -> ("INDUSTRY" :> 2 @@ "NIH" :> 1)
      [] type = "countByPhase"       -> ("PHASE_3" :> 2 @@ "PHASE_2" :> 1)

\* C11: every returned tally maps each label to exactly the number of
\* contributions of the fetched studies carrying that label, and the fixture
\* of three studies yields the four tallies of the test.
TallyMatchesReference ==
    Returned =>
        \A i \in DOMAIN Results :
            /\ MatchesReference(Results[i].results,
                                Contributions(Results[i].analysisType, allStudies))
            /\ allStudies = mockStudies =>
                  Results[i].results = FixtureTally(Results[i].analysisType)

\* what a request for the single type alone returns over the same studies
SingleKindResult(type, studies) ==
    Analyze([isArray |-> FALSE, value |-> <<type>>], studies)[1]

\* C12: a returned analysis has one entry per requested type, the i-th entry
\* for the i-th requested type, every entry with totalStudies equal to the
\* number of fetched studies, and each tally equal to the tally of a request
\* for that type alone over the same studies.
MultiKindRequest ==
    Returned =>
        LET types == AnalysisTypesOf(analysisType) IN
        /\ Len(Results) = Len(types)
        /\ \A i \in DOMAIN Results :
              /\ Results[i].analysisType = types[i]
              /\ Results[i].totalStudies = Len(allStudies)
              /\ Results[i].results =
                    SingleKindResult(types[i], allStudies).results
        /\ \A i, j \in DOMAIN Results :
              Results[i].totalStudies = Results[j].totalStudies

MultiKindRequestWitness ==
    /\ Returned
    /\ analysisType.isArray
    /\ AnalysisTypesOf(analysisType) = <<"countByPhase", "countByStatus">>
    /\ allStudies = mockStudies
    /\ Results[1].results = ("PHASE_3" :> 2 @@ "PHASE_2" :> 1)
    /\ Results[2].results = ("COMPLETED" :> 2 @@ "RECRUITING" :> 1)

\* the analysis types of the request are none, or not all of the four types
InvalidKinds ==
    \/ AnalysisTypesOf(analysisType) = <<>>
    \/ \E i \in DOMAIN AnalysisTypesOf(analysisType) :
          AnalysisTypesOf(analysisType)[i] \notin
              {"countByStatus", "countByCountry", "countBySponsorType",
               "countByPhase"}

\* C13: a request whose analysis types are empty or include a value outside
\* the four types is refused before the fetch: no request, not even the
\* probe, is ever sent and nothing is analysed.
FailFastValidation ==
    InvalidKinds =>
        /\ pc \in {"idle", "rejected"}
        /\ requests = <<>>
        /\ initialResponse = None
        /\ analysis = None

FailFastValidationWitness ==
    /\ pc = "rejected"
    /\ AnalysisTypesOf(analysisType) = <<>>
    /\ requests = <<>>

\* C14: at every point of every fetch the accumulator holds at most 5000
\* records.
MemoryBound == Len(allStudies) <= 5000

\* the records of the first k bulk pages received
ReceivedAfter(k) == Flatten(SubSeq(pages, 1, k), 1)

\* the k-th bulk response carried a token and left the accumulator below the
\* probed total
MayContinue(k) ==
    /\ pages[k].nextPageToken # None
    /\ Len(ReceivedAfter(k)) < ProbedTotal

\* after the k-th bulk response the loop went on: a further bulk request was
\* issued, or the delay before it is being taken
Continued(k) ==
    \/ k < Len(BulkRequests)
    \/ k = Len(pages) /\ pc = "delay"

\* C17: after each bulk response the loop goes on to another bulk request if
\* and only if the response carried a continuation token and the accumulator
\* holds fewer records than the probed total.
LoopContinuation ==
    \A k \in 1..Len(pages) : Continued(k) <=> MayContinue(k)

LoopContinuationWitness ==
    /\ Returned
    /\ Len(pages) = 2
    /\ Len(BulkRequests) = 2
    /\ pages[2].nextPageToken # None
    /\ Len(allStudies) >= ProbedTotal
    /\ MayContinue(1)

\* C18: no delay is taken before the first bulk request, exactly one is taken
\* between two consecutive bulk requests and none after the last bulk
\* response: a fetch that made n bulk requests took n - 1 delays.
ThrottlePlacement ==
    /\ BulkRequests = <<>> => delays = 0
    /\ BulkRequests # <<>> =>
           delays = Len(BulkRequests) - 1 + (IF pc = "delay" THEN 1 ELSE 0)
    /\ (pc \in {"done", "failed"} /\ BulkRequests # <<>>) =>
           delays = Len(BulkRequests) - 1

ThrottlePlacementWitness ==
    /\ Returned
    /\ Len(BulkRequests) = 3
    /\ delays = 2

\* C20: in every returned result totalStudies is a natural number and every
\* tally value is an integer >= 1, and an empty record set yields an empty
\* tally.
ResultShape ==
    Returned =>
        \A i \in DOMAIN Results :
            /\ Results[i].totalStudies \in Nat
            /\ \A label \in DOMAIN Results[i].results :
                   /\ Results[i].results[label] \in Nat
                   /\ Results[i].results[label] >= 1
            /\ allStudies = <<>> => DOMAIN Results[i].results = {}

ResultShapeWitness ==
    /\ Returned
    /\ Len(Results) = 2
    /\ Results[2].totalStudies = 3
    /\ Results[2].results = ("COMPLETED" :> 2 @@ "RECRUITING" :> 1)

\* the tool handler has returned to the caller
Responded == response # None

\* C19: the handler answers a failed analysis with an error response that
\* carries the error's code, message and details and no analysis, answers a
\* successful analysis with the analysis and no error, and never answers a
\* failure with a success response.
ErrorEnvelope ==
    /\ Responded <=> pc \in {"done", "failed"}
    /\ pc = "failed" =>
          /\ response[1].isError
          /\ response[1].structuredContent =
                 [ code    |-> error[1].code,
                   message |-> error[1].message,
                   details |-> error[1].details ]
          /\ "analysis" \notin DOMAIN response[1].structuredContent
    /\ pc = "done" =>
          /\ ~response[1].isError
          /\ response[1].structuredContent = [analysis |-> Results]
    /\ (failure # None \/ (ProbeAnswered /\ ProbedTotal > 5000)) =>
          (Responded /\ response[1].isError)

ErrorEnvelopeWitness ==
    /\ pc = "failed"
    /\ failure # None
    /\ Len(pages) = 1
    /\ Responded
    /\ response[1].isError
    /\ response[1].structuredContent.code = "SERVICE_UNAVAILABLE"

\* call p has ended
Terminated(p) == calls[p].pc \in {"done", "failed"}

\* what call p made of its run: the requests it sent and what it returned
Outcome(p) ==
    [ requests |-> calls[p].requests,
      analysis |-> calls[p].analysis,
      error    |-> calls[p].error ]

RECURSIVE AloneLoop(_, _, _, _, _)
\* a run of the paging loop on its own from the bulk request with this token
AloneLoop(input, total, studies, token, sent) ==
    LET reqs == Append(sent, BulkRequest(token)) IN
    IF PolicyFails(token)
    THEN [ requests |-> reqs, analysis |-> None, error |-> Some(PolicyError) ]
    ELSE LET paged == PolicyPage(token)
             acc == Accumulate(studies, paged)
         IN  IF HasMore(paged.nextPageToken, acc, total)
             THEN AloneLoop(input, total, acc, paged.nextPageToken, reqs)
             ELSE [ requests |-> reqs,
                    analysis |-> Some(Analyze(input, acc)),
                    error    |-> None ]

\* the outcome of one invocation with this input run on its own against the
\* remote
Alone(input) ==
    LET t == Coalesce(PolicyProbe.totalCount, 0) IN
    IF t > 5000
    THEN [ requests |-> <<ProbeRequest>>, analysis |-> None,
           error |-> Some(CapError(t)) ]
    ELSE IF t = 0
    THEN [ requests |-> <<ProbeRequest>>,
           analysis |-> Some(Analyze(input, <<>>)), error |-> None ]
    ELSE AloneLoop(input, t, <<>>, None, <<ProbeRequest>>)

\* C15: two invocations in flight at once share no state: however their
\* steps interleave, each call that has ended sent the requests and returned
\* the result or error it would have when run alone against the same remote
\* data, and while a call is in flight its accumulator holds records of its
\* own pages only.
Isolation ==
    \A p \in Calls :
        /\ Terminated(p) => Outcome(p) = Alone(calls[p].analysisType)
        /\ InFlight(p) =>
              \E k \in 0..Len(dataset) :
                  frames[p].allStudies = SubSeq(dataset, 1, k)

IsolationWitness ==
    /\ calls[1].pc = "done"
    /\ calls[2].pc = "done"
    /\ calls[1].overlapped
    /\ calls[2].overlapped
    /\ calls[1].analysisType # calls[2].analysisType
    /\ Len(calls[1].requests) = 3
    /\ Len(frames[1].allStudies) = 3

\* C16: two runs of the same request against the same remote data return
\* identical results (the same kinds in the same order, the same
\* totalStudies, the same tallies) or the same error, and send the same
\* sequence of remote requests.
Idempotence ==
    (/\ Terminated(1)
     /\ Terminated(2)
     /\ calls[1].analysisType = calls[2].analysisType) =>
        /\ calls[1].analysis = calls[2].analysis
        /\ calls[1].error = calls[2].error
        /\ calls[1].requests = calls[2].requests
        /\ calls[1].response = calls[2].response

IdempotenceWitness ==
    /\ calls[1].pc = "done"
    /\ calls[2].pc = "done"
    /\ ~calls[2].overlapped
    /\ calls[1].analysisType = calls[2].analysisType
    /\ calls[1].analysisType.isArray
    /\ Len(calls[2].requests) = 3
    /\ calls[1].analysis[1][1].totalStudies = 3

\* requests sent and not yet answered or failed
Outstanding ==
    Len(requests) - (IF ProbeAnswered THEN 1 ELSE 0) - Len(pages)
                  - (IF failure # None THEN 1 ELSE 0)

\* C25: at most one remote request is outstanding at any time, the first
\* bulk request carries no token, and bulk request k+1 is sent after
\* response k has arrived, with exactly the token of response k.
SequentialPaging ==
    /\ Outstanding \in {0, 1}
    /\ BulkRequests # <<>> => BulkRequests[1].pageToken = None
    /\ \A k \in 1..(Len(BulkRequests) - 1) :
          /\ k <= Len(pages)
          /\ BulkRequests[k + 1].pageToken = pages[k].nextPageToken

SequentialPagingWitness ==
    /\ pc = "bulk"
    /\ Outstanding = 1
    /\ Len(BulkRequests) = 3
    /\ BulkRequests[2].pageToken = Some(2)
    /\ BulkRequests[3].pageToken = Some(0)

\* C27: every request of the invocation carries the caller's query and
\* filter; the probe asks for one record and the total count, without a
\* token, and every later request is a bulk request of the bulk page size
\* without total count.
SearchSpecFrozen ==
    \A i \in DOMAIN requests :
        /\ requests[i].query = searchParams.query
        /\ requests[i].filter = searchParams.filter
        /\ i = 1 => /\ requests[i].pageSize = 1
                    /\ requests[i].countTotal
                    /\ requests[i].pageToken = None
        /\ i > 1 => /\ requests[i].pageSize = 1000
                    /\ ~requests[i].countTotal

SearchSpecFrozenWitness ==
    /\ Returned
    /\ Len(requests) = 3
    /\ searchParams.filter = Some("RECRUITING")
    /\ requests[3].pageToken # None

\* C29: the records of the probe response are never added to the
\* accumulator: at every point of the fetch the accumulator is made of the
\* records of the bulk pages only, so a record returned by the probe and by
\* the first bulk page is counted once.
ProbeNotAnalysed ==
    /\ pc \in {"probe", "bulk", "delay", "done"} =>
          allStudies = Flatten(pages, 1)
    /\ Returned =>
          \A i \in DOMAIN Results :
              Results[i].totalStudies = Len(Flatten(pages, 1))

ProbeNotAnalysedWitness ==
    /\ Returned
    /\ Len(initialResponse[1].studies) = 1
    /\ Len(pages) = 1
    /\ pages[1].studies = Some(<<initialResponse[1].studies[1]>>)
    /\ Results[1].totalStudies = 1

\* C30: a probe response without a total count is read as total 0: the
\* invocation returns the empty record set without a bulk request and
\* without an error, also when the probe response held a record.
MissingTotalCount ==
    (ProbeAnswered /\ initialResponse[1].totalCount = None) =>
        /\ Returned
        /\ totalStudies = Some(0)
        /\ allStudies = <<>>
        /\ requests = <<ProbeRequest>>
        /\ error = None
        /\ \A i \in DOMAIN Results :
              Results[i].totalStudies = 0 /\ DOMAIN Results[i].results = {}

MissingTotalCountWitness ==
    /\ ProbeAnswered
    /\ initialResponse[1].totalCount = None
    /\ Len(initialResponse[1].studies) = 1
    /\ Returned

\* the probe requests and the bulk requests call p has sent
ProbesOf(p) == SelectSeq(calls[p].requests, LAMBDA r : r.countTotal)
BulksOf(p) == SelectSeq(calls[p].requests, LAMBDA r : ~r.countTotal)

\* C28: the requests of an invocation do not depend on the analysis types
\* asked for: two invocations with any types against the same remote send
\* the same requests; each sends one probe and asks for no page twice, and
\* every type of its result is computed from the one record set it fetched.
OneFetchPerRequest ==
    /\ (Terminated(1) /\ Terminated(2)) =>
          calls[1].requests = calls[2].requests
    /\ \A p \in Calls :
          /\ Len(ProbesOf(p)) <= 1
          /\ \A j, k \in DOMAIN BulksOf(p) :
                j # k => BulksOf(p)[j].pageToken # BulksOf(p)[k].pageToken
          /\ calls[p].pc = "done" =>
                \A i \in DOMAIN calls[p].analysis[1] :
                    calls[p].analysis[1][i] =
                        [ analysisType |-> calls[p].analysisType.value[i],
                          totalStudies |-> Len(frames[p].allStudies),
                          results      |->
                              Tally(calls[p].analysisType.value[i],
                                    frames[p].allStudies) ]

OneFetchPerRequestWitness ==
    /\ calls[1].pc = "done"
    /\ calls[2].pc = "done"
    /\ Len(calls[1].analysis[1]) = 1
    /\ Len(calls[2].analysis[1]) = 2
    /\ Len(calls[1].requests) = 3
    /\ calls[1].requests = calls[2].requests
    /\ Len(frames[2].allStudies) = 3

\* C24: when every request is eventually answered or fails, every
\* invocation that has started its fetch eventually returns or fails,
\* whatever pages and tokens the remote returns.
FetchTerminates == (pc = "probe") ~> (pc \in {"done", "failed"})

\* C26: once the caller's cancellation signal has fired during a fetch, no
\* further request is sent and no further delay is started, and the
\* invocation does not return analysis results.
Cancellation ==
    cancelled # None =>
        /\ Len(requests) = cancelled[1].requests
        /\ delays = cancelled[1].delays
        /\ analysis = None

\* getStudyLogic has returned
StudyReturned == studyPc = "done"

\* the studies and the errors of the result, errors read as [] when absent
ResultStudies == studyResult[1].studies
ResultErrors == Coalesce(studyResult[1].errors, <<>>)

\* the positions of a list of entries that are about this NCT ID
EntriesOf(entries, id) == { k \in DOMAIN entries : entries[k].nctId = id }

\* the positions of the request whose fetch gave a study / gave none
Found == { i \in DOMAIN nctIds : fetches[i] = "study" }
Failed == { i \in DOMAIN nctIds : fetches[i] # "study" }

RECURSIVE FoundIds(_)
\* the IDs whose fetch gave a study, in the order requested, from position
\* i on
FoundIds(i) ==
    IF i > Len(nctIds) THEN <<>>
    ELSE IF fetches[i] = "study" THEN <<nctIds[i]>> \o FoundIds(i + 1)
    ELSE FoundIds(i + 1)

\* C22: the studies of the result are in the order their IDs were
\* requested in, whatever order the fetches complete in.
ResultInRequestOrder ==
    StudyReturned =>
        [ k \in DOMAIN ResultStudies |-> ResultStudies[k].nctId ] = FoundIds(1)

\* the record the catch block of initializeAndStartServer hands to the error
\* handler for the step that failed
HandledAsCritical(failed) ==
    /\ Len(handledErrors) = 1
    /\ handledErrors[1].error = failed.error
    /\ handledErrors[1].critical = TRUE

\* C23: in stdio mode the transport start is called only after all four tool
\* registrations completed, in their order; a failed registration leaves the
\* transport unstarted; every failure of the initialization (registration,
\* transport start, unsupported transport type) is handed to the error
\* handler as critical and the process exits with code 1; without a failure
\* nothing is handed over and the process does not exit.
StartupOrdering ==
    /\ (transportType = "stdio" /\ transportStarted # None)
          => registered = Tools
    /\ \A i \in 1..Len(registered) : registered[i] = Tools[i]
    /\ (startFailure # None /\ startFailure[1].stage = "registration")
          => transportStarted = None
    /\ (transportType \notin {"stdio", "http"} /\ serverPc # "idle")
          => /\ startFailure # None
             /\ startFailure[1].stage = "transportType"
             /\ transportStarted = None
    /\ startFailure # None
          => /\ HandledAsCritical(startFailure[1])
             /\ exitCode = Some(1)
             /\ serverPc = "exited"
    /\ startFailure = None
          => /\ handledErrors = <<>>
             /\ exitCode = None
             /\ serverPc # "exited"

\* the third registration failed: two tools registered, the transport never
\* started, the error handled as critical, exit code 1
StartupOrderingWitness ==
    /\ transportType = "stdio"
    /\ startFailure # None
    /\ startFailure[1].stage = "registration"
    /\ Len(registered) = 2
    /\ transportStarted = None
    /\ exitCode = Some(1)

====
